---- MODULE Spec2Model ----
(***************************************************************************)
(* Model of the PAM extension layer (src/src/libpam.rs) and of the         *)
(* severity mapper (src/src/severity.rs).                                  *)
(*                                                                         *)
(* Text is a sequence of byte codes.  A C buffer is a sequence of bytes    *)
(* that ends with NUL.  A pointer is NULL (the empty tuple) or a one       *)
(* element tuple holding what it points to; Option values use the same     *)
(* encoding (None is the empty tuple, Some(x) is <<x>>).                   *)
(*                                                                         *)
(* Every public operation is one atomic action: the host guarantees        *)
(* serialized access to the handle.  What the host library (libpam) and    *)
(* the conversation callback answer is drawn with \E in the action; the    *)
(* operation itself is an operator computing, from the inputs and those    *)
(* answers, the result, the foreign calls made (in order, with the         *)
(* arguments as the host reads them) and whether memory was read through   *)
(* a null pointer.                                                         *)
(***************************************************************************)
EXTENDS Integers, Sequences, FiniteSets, TLC

\* longest caller text (prompt, name, message) drawn as an input
MaxLen == 2

\* ------------------------------------------------------------------ bytes
NUL == 0
PERCENT == 37
EQUALS == 61
LOWER_S == 115

\* caller texts: the code looks at no byte of a prompt, a name or a
\* directive but NUL; log messages also carry the format character
Bytes == {NUL, LOWER_S}
LogBytes == {NUL, PERCENT, LOWER_S}

Texts == UNION {[1..n -> Bytes] : n \in 0..MaxLen}
LogTexts == UNION {[1..n -> LogBytes] : n \in 0..MaxLen}

HasNul(s) == \E i \in 1..Len(s) : s[i] = NUL

\* ------------------------------------------------------------------ Option, pointers, results
None == <<>>
Some(x) == <<x>>
NULL == <<>>
Ptr(x) == <<x>>
Unit == <<>>

\* a status is the PamError variant that PamError::new yields for the
\* integer the host returned
SUCCESS == "SUCCESS"
SERVICE_ERR == "SERVICE_ERR"
BUF_ERR == "BUF_ERR"
BAD_ITEM == "BAD_ITEM"
CONV_ERR == "CONV_ERR"

Ok(v) == [tag |-> "Ok", val |-> v, err |-> SUCCESS]
Err(e) == [tag |-> "Err", val |-> None, err |-> e]
\* panic!(): the call does not return a PamResult
Panic == [tag |-> "Panic", val |-> None, err |-> SUCCESS]
\* the process is killed by a fault (one outcome of undefined behaviour)
Crash == [tag |-> "Crash", val |-> None, err |-> SUCCESS]

\* slip: a value that is present wins over the status
to_result_keeps_value(self, ok) == IF self = SUCCESS \/ ok # None THEN Ok(ok) ELSE Err(self)
\* slip: success without a value is reported as a failure
to_result_drops_none(self, ok) ==
    IF self = SUCCESS /\ ok # None THEN Ok(ok) ELSE Err(IF self = SUCCESS THEN SERVICE_ERR ELSE self)
to_result(self, ok) == IF self = SUCCESS THEN Ok(ok) ELSE Err(self)

\* impl From<NulError> for PamError
From_NulError == SERVICE_ERR

\* CString::new: fails on an embedded NUL, else the bytes with a NUL appended
CString_new(s) ==
    IF HasNul(s) THEN [ok |-> FALSE, buf |-> <<>>]
    ELSE [ok |-> TRUE, buf |-> s \o <<NUL>>]

\* CStr::from_ptr: the bytes before the first NUL of the buffer
CStr_from_ptr(buf) ==
    LET i == CHOOSE k \in 1..Len(buf) :
                 buf[k] = NUL /\ \A j \in 1..(k - 1) : buf[j] # NUL
    IN SubSeq(buf, 1, i - 1)

\* what an operation yields: its result, the foreign calls it made, whether
\* it read through a null pointer, whether it read the response record
Outcome(res, cs, nullread, respread) ==
    [result |-> res, calls |-> cs, deref_null |-> nullread, read_resp |-> respread]

\* ------------------------------------------------------------------ items
PamItemType ==
    {"USER", "RHOST", "CONV", "AUTHTOK", "OLDAUTHTOK", "RUSER", "FAIL_DELAY", "XAUTHDATA"}

ItemStatuses == {SUCCESS, BAD_ITEM, BUF_ERR}
\* the strings the host holds, and the C buffers holding them
HostTexts == {<<>>, <<LOWER_S>>}
CBuf(t) == t \o <<NUL>>
HostStrings == {CBuf(t) : t \in HostTexts}
\* the answer is drawn only where the operation reaches the host
NoItemResponse == [ret |-> SUCCESS, ptr |-> NULL]
\* what pam_get_item / pam_get_user / pam_get_authtok answer: the status
\* and the value left in the out-pointer (initialised to null by the caller)
ItemResponses ==
    {h \in [ret : ItemStatuses, ptr : {NULL} \cup {Ptr(b) : b \in HostStrings}] :
        h.ret = SUCCESS \/ h.ptr \in {NULL, Ptr(<<LOWER_S, NUL>>)}}

\* slip: the item kind is not checked
get_cstr_item_no_guard(item_type, h) ==
    LET raw_item == h.ptr
        r == h.ret
        call == [fn |-> "pam_get_item", item_type |-> item_type, ret |-> r, out |-> raw_item]
    IN Outcome(IF raw_item = NULL THEN to_result(r, None)
               ELSE to_result(r, Some(CStr_from_ptr(raw_item[1]))),
               <<call>>, FALSE, FALSE)
get_cstr_item(item_type, h) ==
    IF item_type \in {"CONV", "FAIL_DELAY", "XAUTHDATA"}
    THEN Outcome(Panic, <<>>, FALSE, FALSE)
    ELSE LET raw_item == h.ptr
             r == h.ret
             call == [fn |-> "pam_get_item", item_type |-> item_type, ret |-> r, out |-> raw_item]
         IN Outcome(IF raw_item = NULL THEN to_result(r, None)
                    ELSE to_result(r, Some(CStr_from_ptr(raw_item[1]))),
                    <<call>>, FALSE, FALSE)

get_cached_user(h) == get_cstr_item("USER", h)
get_cached_authtok(h) == get_cstr_item("AUTHTOK", h)
get_cached_oldauthtok(h) == get_cstr_item("OLDAUTHTOK", h)
get_rhost(h) == get_cstr_item("RHOST", h)
get_ruser(h) == get_cstr_item("RUSER", h)

\* prompt is an Option<&str>; the host sees a null prompt pointer for None
get_user(prompt, h) ==
    LET cprompt == IF prompt = None THEN [ok |-> TRUE, buf |-> <<>>] ELSE CString_new(prompt[1])
    IN IF ~cprompt.ok THEN Outcome(Err(From_NulError), <<>>, FALSE, FALSE)
       ELSE LET raw_user == h.ptr
                r == h.ret
                call == [fn |-> "pam_get_user",
                         prompt |-> IF prompt = None THEN NULL ELSE Ptr(CStr_from_ptr(cprompt.buf)),
                         ret |-> r, out |-> raw_user]
            IN Outcome(IF raw_user = NULL THEN to_result(r, None)
                       ELSE to_result(r, Some(CStr_from_ptr(raw_user[1]))),
                       <<call>>, FALSE, FALSE)

get_authtok(prompt, h) ==
    LET cprompt == IF prompt = None THEN [ok |-> TRUE, buf |-> <<>>] ELSE CString_new(prompt[1])
    IN IF ~cprompt.ok THEN Outcome(Err(From_NulError), <<>>, FALSE, FALSE)
       ELSE LET raw_at == h.ptr
                r == h.ret
                call == [fn |-> "pam_get_authtok", item_type |-> "AUTHTOK",
                         prompt |-> IF prompt = None THEN NULL ELSE Ptr(CStr_from_ptr(cprompt.buf)),
                         ret |-> r, out |-> raw_at]
            IN Outcome(IF raw_at = NULL THEN to_result(r, None)
                       ELSE to_result(r, Some(CStr_from_ptr(raw_at[1]))),
                       <<call>>, FALSE, FALSE)

\* pam_set_item as set_item wraps it; ret is the host's status
set_item(item_type, item, ret) ==
    LET call == [fn |-> "pam_set_item", item_type |-> item_type,
                 item |-> CStr_from_ptr(item), ret |-> ret]
    IN Outcome(to_result(ret, Unit), <<call>>, FALSE, FALSE)

\* authtok is a CString: a buffer that already ends with NUL
set_authtok(authtok, ret) == set_item("AUTHTOK", authtok, ret)

\* ------------------------------------------------------------------ conversation
PamMsgStyle == {"PROMPT_ECHO_OFF", "TEXT_INFO"}
CbStatuses == {SUCCESS, CONV_ERR, BUF_ERR}
\* PamConv descriptors: cb is an Option of a function pointer
PamConvs == {[cb |-> None], [cb |-> Some("cb")]}
\* PamResponse records: resp is an Option of a pointer to a C string
PamResponses == {[resp |-> None]} \cup {[resp |-> Some(b)] : b \in HostStrings}
\* what the callback answers: its status and what it stored in *resp
\* (resp_ptr, initialised to null by conv)
CbResponses ==
    {c \in [ret : CbStatuses, resp_ptr : {NULL} \cup {Ptr(r) : r \in PamResponses}] :
        c.ret = SUCCESS \/ c.resp_ptr \in {NULL, Ptr([resp |-> Some(<<LOWER_S, NUL>>)])}}
\* what pam_get_item(CONV) answers: the handle's CONV item is the host's,
\* and the application may replace it between two calls of the module
ConvResponses == [ret : ItemStatuses, ptr : {NULL} \cup {Ptr(d) : d \in PamConvs}]
NoCbResponse == [ret |-> CONV_ERR, resp_ptr |-> NULL]
\* what a read through the null resp_ptr can produce
UBOutcomes == {Crash, Ok(None), Ok(Some(<<LOWER_S>>))}

\* slip: a descriptor without a callback is reported as a conversation error
conv_no_cb_is_error(prompt, style, h, c, u) ==
    LET conv_pointer == h.ptr
        r == h.ret
        call1 == [fn |-> "pam_get_item", item_type |-> "CONV", ret |-> r, out |-> conv_pointer]
    IN IF r # SUCCESS THEN Outcome(Err(r), <<call1>>, FALSE, FALSE)
       ELSE IF conv_pointer = NULL THEN Outcome(Ok(None), <<call1>>, FALSE, FALSE)
       ELSE LET pam_conv == conv_pointer[1]
                msg_cstr == CString_new(IF prompt = None THEN <<>> ELSE prompt[1])
            IN IF ~msg_cstr.ok THEN Outcome(Err(From_NulError), <<call1>>, FALSE, FALSE)
               ELSE IF pam_conv.cb = None THEN Outcome(Err(CONV_ERR), <<call1>>, FALSE, FALSE)
               ELSE LET resp_ptr == c.resp_ptr
                        call2 == [fn |-> "cb", num_msg |-> 1, msg_style |-> style,
                                  msg |-> CStr_from_ptr(msg_cstr.buf),
                                  ret |-> c.ret, out |-> resp_ptr]
                    IN IF c.ret = SUCCESS
                       THEN IF resp_ptr = NULL
                            THEN Outcome(u, <<call1, call2>>, TRUE, TRUE)
                            ELSE Outcome(Ok(IF resp_ptr[1].resp = None THEN None
                                            ELSE Some(CStr_from_ptr(resp_ptr[1].resp[1]))),
                                         <<call1, call2>>, FALSE, TRUE)
                       ELSE Outcome(Err(c.ret), <<call1, call2>>, FALSE, FALSE)

\* slip: the status of the callback is dropped
conv_ignores_cb_status(prompt, style, h, c, u) ==
    LET conv_pointer == h.ptr
        r == h.ret
        call1 == [fn |-> "pam_get_item", item_type |-> "CONV", ret |-> r, out |-> conv_pointer]
    IN IF r # SUCCESS THEN Outcome(Err(r), <<call1>>, FALSE, FALSE)
       ELSE IF conv_pointer = NULL THEN Outcome(Ok(None), <<call1>>, FALSE, FALSE)
       ELSE LET pam_conv == conv_pointer[1]
                msg_cstr == CString_new(IF prompt = None THEN <<>> ELSE prompt[1])
            IN IF ~msg_cstr.ok THEN Outcome(Err(From_NulError), <<call1>>, FALSE, FALSE)
               ELSE IF pam_conv.cb = None THEN Outcome(Ok(None), <<call1>>, FALSE, FALSE)
               ELSE LET resp_ptr == c.resp_ptr
                        call2 == [fn |-> "cb", num_msg |-> 1, msg_style |-> style,
                                  msg |-> CStr_from_ptr(msg_cstr.buf),
                                  ret |-> c.ret, out |-> resp_ptr]
                    IN IF c.ret = SUCCESS
                       THEN IF resp_ptr = NULL
                            THEN Outcome(u, <<call1, call2>>, TRUE, TRUE)
                            ELSE Outcome(Ok(IF resp_ptr[1].resp = None THEN None
                                            ELSE Some(CStr_from_ptr(resp_ptr[1].resp[1]))),
                                         <<call1, call2>>, FALSE, TRUE)
                       ELSE Outcome(Ok(None), <<call1, call2>>, FALSE, FALSE)

\* h: the answer of pam_get_item(CONV); c: the answer of the callback, if
\* it is invoked; u: the outcome of the build where behaviour is undefined
conv(prompt, style, h, c, u) ==
    LET conv_pointer == h.ptr
        r == h.ret
        call1 == [fn |-> "pam_get_item", item_type |-> "CONV", ret |-> r, out |-> conv_pointer]
    IN IF r # SUCCESS THEN Outcome(Err(r), <<call1>>, FALSE, FALSE)
       ELSE IF conv_pointer = NULL THEN Outcome(Ok(None), <<call1>>, FALSE, FALSE)
       ELSE LET pam_conv == conv_pointer[1]
                msg_cstr == CString_new(IF prompt = None THEN <<>> ELSE prompt[1])
            IN IF ~msg_cstr.ok THEN Outcome(Err(From_NulError), <<call1>>, FALSE, FALSE)
               ELSE IF pam_conv.cb = None THEN Outcome(Ok(None), <<call1>>, FALSE, FALSE)
               ELSE LET resp_ptr == c.resp_ptr
                        call2 == [fn |-> "cb", num_msg |-> 1, msg_style |-> style,
                                  msg |-> CStr_from_ptr(msg_cstr.buf),
                                  ret |-> c.ret, out |-> resp_ptr]
                    IN IF c.ret = SUCCESS
                       THEN IF resp_ptr = NULL
                            THEN Outcome(u, <<call1, call2>>, TRUE, TRUE)
                            ELSE Outcome(Ok(IF resp_ptr[1].resp = None THEN None
                                            ELSE Some(CStr_from_ptr(resp_ptr[1].resp[1]))),
                                         <<call1, call2>>, FALSE, TRUE)
                       ELSE Outcome(Err(c.ret), <<call1, call2>>, FALSE, FALSE)

\* ------------------------------------------------------------------ environment list
\* the host's list: a set of <<name, value>> pairs, one per name
EnvNames == {<<LOWER_S>>, <<PERCENT>>}
EnvValues == {<<>>, <<LOWER_S>>}

\* a directive as the host parses it: the name ends at the first '='
SplitDirective(s) ==
    LET eqs == {i \in 1..Len(s) : s[i] = EQUALS}
    IN IF eqs = {} THEN [name |-> s, set |-> FALSE, value |-> <<>>]
       ELSE LET i == CHOOSE k \in eqs : \A j \in eqs : k <= j
            IN [name |-> SubSeq(s, 1, i - 1), set |-> TRUE, value |-> SubSeq(s, i + 1, Len(s))]

\* host side of pam_putenv; fail: the host cannot allocate the entry
pam_putenv(e, buf, fail) ==
    LET d == SplitDirective(CStr_from_ptr(buf))
        others == {x \in e : x[1] # d.name}
    IN IF fail THEN [ret |-> BUF_ERR, env |-> e]
       ELSE IF d.name = <<>> THEN [ret |-> BAD_ITEM, env |-> e]
       ELSE IF d.set THEN [ret |-> SUCCESS, env |-> others \cup {<<d.name, d.value>>}]
       ELSE IF others = e THEN [ret |-> BAD_ITEM, env |-> e]
       ELSE [ret |-> SUCCESS, env |-> others]

\* host side of pam_getenv: a pointer to the value's C string, or null
pam_getenv(e, buf) ==
    LET n == CStr_from_ptr(buf)
        hits == {x \in e : x[1] = n}
    IN IF hits = {} THEN NULL ELSE Ptr((CHOOSE x \in hits : TRUE)[2] \o <<NUL>>)

\* slip: an empty value is taken for an absent one
getenv_empty_is_none(name, e) ==
    LET cname == CString_new(name)
    IN IF ~cname.ok THEN Outcome(Err(From_NulError), <<>>, FALSE, FALSE)
       ELSE LET cenv == pam_getenv(e, cname.buf)
                call == [fn |-> "pam_getenv", name |-> CStr_from_ptr(cname.buf), out |-> cenv]
            IN Outcome(IF cenv = NULL \/ CStr_from_ptr(cenv[1]) = <<>> THEN Ok(None)
                       ELSE Ok(Some(CStr_from_ptr(cenv[1]))),
                       <<call>>, FALSE, FALSE)

getenv(name, e) ==
    LET cname == CString_new(name)
    IN IF ~cname.ok THEN Outcome(Err(From_NulError), <<>>, FALSE, FALSE)
       ELSE LET cenv == pam_getenv(e, cname.buf)
                call == [fn |-> "pam_getenv", name |-> CStr_from_ptr(cname.buf), out |-> cenv]
            IN Outcome(IF cenv = NULL THEN Ok(None) ELSE Ok(Some(CStr_from_ptr(cenv[1]))),
                       <<call>>, FALSE, FALSE)

\* yields the outcome and the host's list after the call
putenv(name_value, e, fail) ==
    LET cenv == CString_new(name_value)
    IN IF ~cenv.ok THEN [out |-> Outcome(Err(From_NulError), <<>>, FALSE, FALSE), env |-> e]
       ELSE LET h == pam_putenv(e, cenv.buf, fail)
                call == [fn |-> "pam_putenv", name_value |-> CStr_from_ptr(cenv.buf), ret |-> h.ret]
            IN [out |-> Outcome(to_result(h.ret, Unit), <<call>>, FALSE, FALSE), env |-> h.env]

\* ------------------------------------------------------------------ logging
Severity == {"Critical", "Error", "Info", "Debug"}
LOG_CRIT == 2
LOG_ERR == 3
LOG_INFO == 6
LOG_DEBUG == 7

\* slip: two severities share a code
to_int_collapsed(self) ==
    CASE self = "Critical" -> LOG_ERR
      [] self = "Error" -> LOG_ERR
      [] self = "Info" -> LOG_INFO
      [] self = "Debug" -> LOG_DEBUG

to_int(self) ==
    CASE self = "Critical" -> LOG_CRIT
      [] self = "Error" -> LOG_ERR
      [] self = "Info" -> LOG_INFO
      [] self = "Debug" -> LOG_DEBUG

\* slip: the message is handed over as the format string
syslog_message_as_format(priority, message) ==
    LET cmessage == CString_new(message)
    IN IF ~cmessage.ok THEN Outcome(Err(From_NulError), <<>>, FALSE, FALSE)
       ELSE LET call == [fn |-> "pam_syslog", priority |-> to_int(priority),
                         fmt |-> CStr_from_ptr(cmessage.buf), args |-> <<>>]
            IN Outcome(Ok(Unit), <<call>>, FALSE, FALSE)

syslog(priority, message) ==
    LET fmt == CString_new(<<PERCENT, LOWER_S>>)
        cmessage == CString_new(message)
    IN IF ~fmt.ok THEN Outcome(Err(From_NulError), <<>>, FALSE, FALSE)
       ELSE IF ~cmessage.ok THEN Outcome(Err(From_NulError), <<>>, FALSE, FALSE)
       ELSE LET call == [fn |-> "pam_syslog", priority |-> to_int(priority),
                         fmt |-> CStr_from_ptr(fmt.buf),
                         args |-> <<CStr_from_ptr(cmessage.buf)>>]
            IN Outcome(Ok(Unit), <<call>>, FALSE, FALSE)

\* ------------------------------------------------------------------ state
VARIABLES
    env,        \* the handle's environment list
    expect,     \* history: per name, what the last successful directive set
    last        \* the last operation: its inputs and its outcome

vars == <<env, expect, last>>

Done(op, text, arg, o) ==
    [op |-> op, text |-> text, arg |-> arg, result |-> o.result, calls |-> o.calls,
     deref_null |-> o.deref_null, read_resp |-> o.read_resp]

Prompts == {None} \cup {Some(t) : t \in Texts}

Init ==
    /\ env = {}
    /\ expect = [n \in EnvNames |-> None]
    /\ last = Done("none", None, "-", Outcome(Ok(Unit), <<>>, FALSE, FALSE))

\* the host answers only if it is called: a prompt that does not encode
\* never reaches it
Reaches(prompt) == prompt = None \/ ~HasNul(prompt[1])

GetUser ==
    \E prompt \in Prompts :
      \E h \in (IF Reaches(prompt) THEN ItemResponses ELSE {NoItemResponse}) :
        /\ last' = Done("get_user", prompt, "-", get_user(prompt, h))
        /\ UNCHANGED <<env, expect>>

GetAuthtok ==
    \E prompt \in Prompts :
      \E h \in (IF Reaches(prompt) THEN ItemResponses ELSE {NoItemResponse}) :
        /\ last' = Done("get_authtok", prompt, "-", get_authtok(prompt, h))
        /\ UNCHANGED <<env, expect>>

Accessors == {"get_cached_user", "get_cached_authtok", "get_cached_oldauthtok", "get_rhost", "get_ruser"}

Accessor(name, h) ==
    CASE name = "get_cached_user" -> get_cached_user(h)
      [] name = "get_cached_authtok" -> get_cached_authtok(h)
      [] name = "get_cached_oldauthtok" -> get_cached_oldauthtok(h)
      [] name = "get_rhost" -> get_rhost(h)
      [] name = "get_ruser" -> get_ruser(h)

\* one of the five public item accessors
GetCached ==
    \E name \in Accessors, h \in ItemResponses :
        /\ last' = Done(name, None, "-", Accessor(name, h))
        /\ UNCHANGED <<env, expect>>

\* the crate-private generic accessor, called with any item kind
GetCstrItem ==
    \E item_type \in PamItemType, h \in ItemResponses :
        /\ last' = Done("get_cstr_item", None, item_type, get_cstr_item(item_type, h))
        /\ UNCHANGED <<env, expect>>

SetAuthtok ==
    \E authtok \in HostStrings, ret \in ItemStatuses :
        /\ last' = Done("set_authtok", Some(CStr_from_ptr(authtok)), "-", set_authtok(authtok, ret))
        /\ UNCHANGED <<env, expect>>

\* the callback answers only where the host handed one out and the prompt
\* encodes
Registered(h) == h.ret = SUCCESS /\ h.ptr # NULL /\ h.ptr[1].cb # None

Conv ==
    \E prompt \in Prompts, style \in PamMsgStyle, h \in ConvResponses :
      \E c \in (IF Registered(h) /\ Reaches(prompt) THEN CbResponses ELSE {NoCbResponse}) :
        \E u \in (IF c.ret = SUCCESS /\ c.resp_ptr = NULL THEN UBOutcomes ELSE {Crash}) :
          /\ last' = Done("conv", prompt, style, conv(prompt, style, h, c, u))
          /\ UNCHANGED <<env, expect>>

Getenv ==
    \E name \in Texts \cup EnvNames :
        /\ last' = Done("getenv", Some(name), "-", getenv(name, env))
        /\ UNCHANGED <<env, expect>>

\* "NAME=value", "NAME=" and "NAME" as the caller writes them
Directive(n, set, v) == IF set THEN n \o <<EQUALS>> \o v ELSE n

Putenv ==
    \E fail \in BOOLEAN :
        \/ \E n \in EnvNames \cup {<<>>}, set \in BOOLEAN :
             \E v \in (IF set THEN EnvValues ELSE {<<>>}) :
               LET p == putenv(Directive(n, set, v), env, fail)
               IN /\ last' = Done("putenv", Some(Directive(n, set, v)), "-", p.out)
                  /\ env' = p.env
                  /\ expect' = IF p.out.result.tag = "Ok" /\ n \in EnvNames
                               THEN [expect EXCEPT ![n] = IF set THEN Some(v) ELSE None]
                               ELSE expect
        \/ \E t \in {x \in Texts : HasNul(x)} :
               LET p == putenv(t, env, fail)
               IN /\ last' = Done("putenv", Some(t), "-", p.out)
                  /\ env' = p.env
                  /\ UNCHANGED expect

Syslog ==
    \E priority \in Severity, message \in LogTexts :
        /\ last' = Done("syslog", Some(message), priority, syslog(priority, message))
        /\ UNCHANGED <<env, expect>>

Next ==
    \/ GetUser
    \/ GetAuthtok
    \/ GetCached
    \/ GetCstrItem
    \/ SetAuthtok
    \/ Conv
    \/ Getenv
    \/ Putenv
    \/ Syslog

Spec == Init /\ [][Next]_vars

\* ------------------------------------------------------------------ properties
TextOps == {"get_user", "get_authtok", "conv", "getenv", "putenv", "syslog"}
ItemReaders == {"get_user", "get_authtok"} \cup Accessors
NoStringItems == {"CONV", "FAIL_DELAY", "XAUTHDATA"}

NulText == last.text # None /\ HasNul(last.text[1])
Called == last.calls # <<>>

\* C1: an operation given a text with an embedded NUL returns
\* Err(SERVICE_ERR) and makes no foreign call.
C1_NulTextFailsBeforeAnyCall ==
    (last.op \in TextOps /\ NulText) =>
        (last.result = Err(SERVICE_ERR) /\ last.calls = <<>>)

\* C2: when the item read of an item-reading operation (conv's read of the
\* CONV item included) returns a status other than success, the operation
\* returns Err of exactly that status, whatever the out-pointer holds.
C2_HostStatusVerbatim ==
    (last.op \in ItemReaders \cup {"conv"} /\ Called /\ last.calls[1].ret # SUCCESS) =>
        last.result = Err(last.calls[1].ret)

C2_Witness ==
    /\ last.op = "get_user"
    /\ Called
    /\ last.calls[1].ret = BUF_ERR
    /\ last.calls[1].out # NULL
    /\ last.result = Err(BUF_ERR)

\* C3: when the item read returns success, an item-reading operation
\* returns Ok(None) if the out-pointer is null and Ok(Some(s)) if it points
\* to the string s.
C3_SuccessNullIsNone ==
    (last.op \in ItemReaders /\ Called /\ last.calls[1].ret = SUCCESS) =>
        IF last.calls[1].out = NULL THEN last.result = Ok(None)
        ELSE \E t \in HostTexts :
                /\ last.calls[1].out = Ptr(CBuf(t))
                /\ last.result = Ok(Some(t))

C3_Witness ==
    /\ last.op = "get_cached_authtok"
    /\ Called
    /\ last.calls[1].ret = SUCCESS
    /\ last.calls[1].out = NULL
    /\ last.result = Ok(None)

NoCallback ==
    /\ last.op = "conv"
    /\ last.calls[1].ret = SUCCESS
    /\ (last.calls[1].out = NULL \/ last.calls[1].out[1].cb = None)

NoCallbackCall == \A i \in 1..Len(last.calls) : last.calls[i].fn # "cb"

WithCallback ==
    /\ last.op = "conv"
    /\ last.calls[1].ret = SUCCESS
    /\ last.calls[1].out # NULL
    /\ last.calls[1].out[1].cb # None
    /\ ~NulText

C6_NonStringItemsPanic ==
    /\ last.op = "get_cstr_item" =>
           /\ (last.result = Panic) <=> (last.arg \in NoStringItems)
           /\ last.result = Panic => last.calls = <<>>
    /\ last.op \in Accessors => last.result.tag # "Panic"

C6_Witness ==
    /\ last.op = "get_cstr_item"
    /\ last.arg = "FAIL_DELAY"
    /\ last.result = Panic
    /\ last.calls = <<>>

\* C7: getenv reflects the last successful directive of each name (Some of
\* the value after NAME=value and NAME=, None after NAME and for a name
\* never set), directives reach the host unmodified, and getenv leaves the
\* list as it is.
C7_EnvRoundTrip ==
    /\ \A n \in EnvNames : getenv(n, env).result = Ok(expect[n])
    /\ (last.op = "getenv" /\ ~NulText) =>
           /\ last.result = Ok(IF last.text[1] \in EnvNames THEN expect[last.text[1]] ELSE None)
           /\ Len(last.calls) = 1
           /\ last.calls[1].name = last.text[1]
    /\ (last.op = "putenv" /\ ~NulText) =>
           /\ Len(last.calls) = 1
           /\ last.calls[1].name_value = last.text[1]

C7_Witness ==
    /\ last.op = "getenv"
    /\ last.text = Some(<<LOWER_S>>)
    /\ last.result = Ok(Some(<<>>))
    /\ expect[<<PERCENT>>] = Some(<<LOWER_S>>)

\* C8: for a message without NUL, syslog makes one pam_syslog call with the
\* format "%s", the message as its only argument and the code of the
\* severity as priority, and returns Ok(()).
C8_FixedFormat ==
    (last.op = "syslog" /\ ~NulText) =>
        /\ last.calls = <<[fn |-> "pam_syslog", priority |-> to_int(last.arg),
                           fmt |-> <<PERCENT, LOWER_S>>, args |-> <<last.text[1]>>]>>
        /\ last.result = Ok(Unit)

C8_Witness ==
    /\ last.op = "syslog"
    /\ last.text = Some(<<PERCENT, LOWER_S>>)
    /\ Called
    /\ last.calls[1].fmt = <<PERCENT, LOWER_S>>
    /\ last.calls[1].args = <<(<<PERCENT, LOWER_S>>)>>

\* C9: to_int maps Critical, Error, Info and Debug to LOG_CRIT, LOG_ERR,
\* LOG_INFO and LOG_DEBUG, no two severities share a code, and the priority
\* of a logging call identifies the severity it was made with.
C9_SeverityInjective ==
    /\ to_int("Critical") = LOG_CRIT
    /\ to_int("Error") = LOG_ERR
    /\ to_int("Info") = LOG_INFO
    /\ to_int("Debug") = LOG_DEBUG
    /\ \A a, b \in Severity : to_int(a) = to_int(b) => a = b
    /\ (last.op = "syslog" /\ Called) =>
           \A a \in Severity : to_int(a) = last.calls[1].priority => a = last.arg

C9_Witness ==
    /\ last.op = "syslog"
    /\ last.arg = "Critical"
    /\ Called
    /\ last.calls[1].priority = LOG_CRIT

\* C10: when the callback returns success, conv reads the response record
\* only through a pointer that is not null; with the pointer left null it
\* returns Ok(None).
C10_NoNullResponseRead ==
    (last.op = "conv" /\ Len(last.calls) = 2 /\ last.calls[2].ret = SUCCESS) =>
        /\ ~last.deref_null
        /\ last.read_resp => last.calls[2].out # NULL
        /\ last.calls[2].out = NULL => last.result = Ok(None)

====
